---- MODULE Spec2Model ----
(***************************************************************************)
(* Control core of the ESP32 SD-card audio player (src/src/main.cpp).      *)
(*                                                                         *)
(* The program state is the set of globals of main.cpp together with the   *)
(* state of the two collaborators it drives: the Audio decoder object and  *)
(* the SD card.  Every function of main.cpp is an operator from a state    *)
(* record to a state record, so that a handler that calls other functions  *)
(* is the composition of their operators; every action of the state        *)
(* machine is one handler (a stage of loop(), a button callback, setup()). *)
(***************************************************************************)
EXTENDS Integers, Sequences, FiniteSets, TLC

VARIABLES
    currentState,      \* PlayerState
    totalSongs,        \* int totalSongs
    currentSongIndex,  \* int currentSongIndex (-1 = none)
    shuffleMode,       \* bool shuffleMode
    shouldPlayNext,    \* bool shouldPlayNext
    cardMounted,       \* bool cardMounted
    lastVolume,        \* int lastVolume (-1 = never sampled)
    audioRunning,      \* audio.isRunning()
    audioSource,       \* the decoder holds an open source (local file)
    audioVolume,       \* audio.getVolume()
    cardInserted,      \* a card is physically in the slot
    sdLinked,          \* SD.begin() succeeded on the card now in the slot
    cardFiles,         \* number of *.mp3 files in the card's root: /1.mp3 .. /n.mp3
    cardClutter,       \* what else the root holds and how it is listed (see RootDir)
    indexExists,       \* /playlist.m3u exists on the card
    indexLines,        \* the lines of /playlist.m3u (0 = blank line, p = path of file p)
    prefsMode,         \* persisted key "mode" of namespace "player"
    bootMode,          \* int bootMode
    pc,                \* position of the control flow: setup() or a stage of loop()
    calls,             \* functions and decoder operations invoked by the last handler, in order
    lastOp,            \* the last handler that ran
    prePos,            \* currentSongIndex before the last handler
    elapsedSeen,       \* audio.getAudioCurrentTime() as read by the last handler
    lastPath,          \* path returned by getSongPath() to the last handler (-1 = not called)
    stallPasses,       \* consecutive loop passes with a running session and no decode progress
    nextLog,           \* positions chosen by successive playNextSong() calls (traversal runs)
    lastShuffleState,  \* int lastShuffleState
    shufflePressStartTime,   \* unsigned long shufflePressStartTime
    shuffleLongPressHandled, \* bool shuffleLongPressHandled
    millisNow,         \* millis()
    pinShuffle,        \* digitalRead(BTN_SHUFFLE), as the button runs drive it
    pressEvents,       \* what the present press of the shuffle button has triggered
    fadePc,            \* position inside fadeOut() / fadeIn() (fade runs)
    fadeV,             \* int v, the loop variable of the fade
    fadeTarget,        \* int targetVol of fadeIn()
    fadeStart,         \* unsigned long start of the step being held
    fadeGains,         \* the gains set by the fade so far, in order
    fadeTicked         \* per step of the fade: audio.loop() ran while it was held

vars == << currentState, totalSongs, currentSongIndex, shuffleMode, shouldPlayNext,
           cardMounted, lastVolume, audioRunning, audioSource, audioVolume,
           cardInserted, sdLinked, cardFiles, cardClutter, indexExists,
           indexLines, prefsMode, bootMode, pc, calls, lastOp, prePos,
           elapsedSeen, lastPath, stallPasses, nextLog, lastShuffleState,
           shufflePressStartTime, shuffleLongPressHandled, millisNow,
           pinShuffle, pressEvents, fadePc, fadeV, fadeTarget, fadeStart,
           fadeGains, fadeTicked >>

fadeVars == << fadePc, fadeV, fadeTarget, fadeStart, fadeGains, fadeTicked >>

btnVars == << lastShuffleState, shufflePressStartTime, shuffleLongPressHandled,
             millisNow, pinShuffle, pressEvents >>

(***************************************************************************)
(* Bounds of the model.                                                    *)
(***************************************************************************)
MaxTracks == 2        \* most *.mp3 files on a card

MaxLines == 2         \* most lines of an index file found on an inserted card

MaxVol == 1           \* volume steps sampled from the potentiometer (0..MaxVol)

MaxCatalog == 3       \* largest catalog of a traversal run (at least MaxTracks)

WatchdogWindow == 2   \* loop passes standing for the 2 s progress window

MaxFileLines == 3     \* most lines (blank ones included) of an index file of an index run

MaxMillis == 2100     \* last reading of millis() in a button run

MaxPressEvents == 2   \* most actions triggered by one press in a button run

MaxFadeVol == 3       \* largest gain and largest target of a fade run

MillisWrap == 64      \* where millis() wraps in a fade run (2^32 on the device)

MaxStall == WatchdogWindow + 1

(***************************************************************************)
(* Program constants.                                                      *)
(***************************************************************************)
RestartThreshold == 3 \* seconds of playback after which "previous" restarts

STATE_NO_CARD == "STATE_NO_CARD"
STATE_IDLE == "STATE_IDLE"
STATE_PLAYING == "STATE_PLAYING"
STATE_PAUSED == "STATE_PAUSED"
STATE_OFF == "STATE_OFF"
STATE_BLUETOOTH == "STATE_BLUETOOTH"

PlayerState == { STATE_NO_CARD, STATE_IDLE, STATE_PLAYING, STATE_PAUSED,
                 STATE_OFF, STATE_BLUETOOTH }

HIGH == "HIGH"
LOW == "LOW"

LongPressMs == 2000   \* the shuffle button held longer than this: mode switch

ShortPressMs == 50    \* the shuffle button held longer than this: short press

FadeOutHoldMs == 15   \* a step of fadeOut() is held for this long

FadeInHoldMs == 20    \* a step of fadeIn() is held for this long

\* no fade is under way
FadeIdle ==
    /\ fadePc = "idle"
    /\ fadeV = 0
    /\ fadeTarget = 0
    /\ fadeStart = 0
    /\ fadeGains = << >>
    /\ fadeTicked = << >>

\* the globals of the shuffle button as declared, and a button at rest
ButtonIdle ==
    /\ lastShuffleState = HIGH
    /\ shufflePressStartTime = 0
    /\ shuffleLongPressHandled = FALSE
    /\ millisNow = 0
    /\ pinShuffle = HIGH
    /\ pressEvents = << >>

NotFound == 0         \* the empty String "" returned for an unresolved path

Range(q) == { q[i] : i \in 1..Len(q) }

(***************************************************************************)
(* The state as a record, and its assignment to the variables.             *)
(***************************************************************************)
Cur ==
    [ cs |-> currentState, total |-> totalSongs, idx |-> currentSongIndex,
      shuffle |-> shuffleMode, spn |-> shouldPlayNext, mounted |-> cardMounted,
      lastVol |-> lastVolume, run |-> audioRunning, src |-> audioSource,
      vol |-> audioVolume, inserted |-> cardInserted, linked |-> sdLinked,
      files |-> cardFiles, clutter |-> cardClutter, hasIndex |-> indexExists,
      lines |-> indexLines, calls |-> << >>, elapsed |-> -1, path |-> -1 ]

SetPlayer(s) ==
    /\ currentState' = s.cs
    /\ totalSongs' = s.total
    /\ currentSongIndex' = s.idx
    /\ shuffleMode' = s.shuffle
    /\ shouldPlayNext' = s.spn
    /\ cardMounted' = s.mounted
    /\ lastVolume' = s.lastVol
    /\ audioRunning' = s.run
    /\ audioSource' = s.src
    /\ audioVolume' = s.vol
    /\ cardInserted' = s.inserted
    /\ sdLinked' = s.linked
    /\ cardFiles' = s.files
    /\ cardClutter' = s.clutter
    /\ indexExists' = s.hasIndex
    /\ indexLines' = s.lines
    /\ calls' = s.calls
    /\ elapsedSeen' = s.elapsed
    /\ lastPath' = s.path
    /\ prePos' = currentSongIndex

Set(s) == SetPlayer(s) /\ UNCHANGED << btnVars, fadeVars >>

Log(s, name) == [s EXCEPT !.calls = Append(@, name)]

(***************************************************************************)
(* The Audio object (decoder), as main.cpp uses it.                        *)
(***************************************************************************)
\* audio.stopSong(): the session ends and its source is released.
stopSong(s) ==
    [Log(s, "stopSong") EXCEPT !.run = FALSE, !.src = FALSE]

\* audio.setVolume(v)
setVolume(s, v) == [s EXCEPT !.vol = v]

\* audio.connecttoFS(SD, path): opens the file and starts decoding it.  The
\* log entry tells whether a session was still running when it was invoked.
\* It fails when the file cannot be opened or the decoder rejects it
\* (accept = FALSE); main.cpp does not look at the result.
connecttoFS(s, path, accept) ==
    LET t == Log(s, IF s.run THEN "connecttoFS_over_running" ELSE "connecttoFS")
        opened == s.linked /\ path >= 1 /\ path <= s.files /\ accept
    IN  [(IF opened THEN t ELSE Log(t, "openFailed"))
            EXCEPT !.run = opened, !.src = opened]

\* audio.pauseResume(): toggles the running flag of an open local file.
pauseResume(s) ==
    LET t == Log(s, "pauseResume")
    IN  IF s.src THEN [t EXCEPT !.run = ~s.run] ELSE t

\* audio_eof_mp3(): the completion callback.
audio_eof_mp3(s) == [Log(s, "audio_eof_mp3") EXCEPT !.spn = TRUE]

\* audio.loop(): one or more decoder ticks.  With a running session the
\* track may complete (eof), which ends the session and runs the callback.
audioLoop(s, eof) ==
    IF s.run /\ eof
    THEN audio_eof_mp3([s EXCEPT !.run = FALSE, !.src = FALSE])
    ELSE s


\* fadeOut(): steps the volume down to 0, ticking the decoder in every step.
fadeOut(s, eof) ==
    audioLoop(setVolume(Log(s, "fadeOut"), 0), eof)

\* fadeIn(targetVol): steps the volume from 0 up to targetVol, ticking the
\* decoder in every step.
fadeIn(s, targetVol, eof) ==
    IF targetVol < 0 THEN Log(s, "fadeIn")
    ELSE audioLoop(setVolume(Log(s, "fadeIn"), targetVol), eof)

(***************************************************************************)
(* The index file /playlist.m3u and the card.                              *)
(***************************************************************************)
\* The read loops of loadPlaylistCache() and getSongPath(): lines are read
\* one by one and the empty ones (after trim) are skipped.
RECURSIVE CountLines(_)
CountLines(lines) ==
    IF lines = << >> THEN 0
    ELSE (IF Head(lines) # 0 THEN 1 ELSE 0) + CountLines(Tail(lines))

RECURSIVE ScanFor(_, _, _)
ScanFor(lines, current, index) ==
    IF lines = << >> THEN NotFound
    ELSE IF Head(lines) # 0
         THEN IF current = index THEN Head(lines)
              ELSE ScanFor(Tail(lines), current + 1, index)
         ELSE ScanFor(Tail(lines), current, index)

\* SD.remove("/playlist.m3u")
removeIndex(s) ==
    IF s.linked THEN [s EXCEPT !.hasIndex = FALSE, !.lines = << >>] ELSE s

\* Mutant: every line is counted, the blank ones too.
loadPlaylistCache_CountsAll(s) ==
    IF ~(s.linked /\ s.hasIndex) THEN [ok |-> FALSE, s |-> s]
    ELSE LET n == Len(s.lines)
         IN  [ok |-> n > 0, s |-> [Log(s, "loadPlaylistCache") EXCEPT !.total = n]]

\* loadPlaylistCache(): [ok, s]
loadPlaylistCache(s) ==
    IF ~(s.linked /\ s.hasIndex) THEN [ok |-> FALSE, s |-> s]
    ELSE LET n == CountLines(s.lines)
         IN  [ok |-> n > 0, s |-> [Log(s, "loadPlaylistCache") EXCEPT !.total = n]]

\* The entries of the card's root directory, as root.openNextFile() lists
\* them.  entry.name() is the bare file name or, with the cores whose
\* name() is the full path, the name behind a "/": a name is modelled by
\* slash (it begins with "/"), dot (the file name proper begins with ".")
\* and id, the line that stands for its absolute path in the index file.
\* A card holds the tracks 1.mp3 .. n.mp3 and, when cluttered, a hidden
\* file "._1.mp3", a directory "live.mp3" and a file "notes.txt";
\* "names" and "paths" are cluttered cards listed in the two forms.
Clutters == { "clean", "names", "paths" }

HiddenEntry(slash) ==
    [name |-> [slash |-> slash, dot |-> TRUE, id |-> 101], dir |-> FALSE, ext |-> "mp3"]

DirEntry(slash) ==
    [name |-> [slash |-> slash, dot |-> FALSE, id |-> 102], dir |-> TRUE, ext |-> "mp3"]

TextEntry(slash) ==
    [name |-> [slash |-> slash, dot |-> FALSE, id |-> 103], dir |-> FALSE, ext |-> "txt"]

RootDir(s) ==
    LET slash == (s.clutter = "paths")
        cluttered == (s.clutter # "clean")
    IN  (IF cluttered THEN << HiddenEntry(slash), DirEntry(slash) >> ELSE << >>)
        \o [i \in 1..s.files |->
              [name |-> [slash |-> slash, dot |-> FALSE, id |-> i],
               dir |-> FALSE, ext |-> "mp3"]]
        \o (IF cluttered THEN << TextEntry(slash) >> ELSE << >>)

\* name.startsWith(c)
startsWith(name, c) ==
    IF name.slash THEN c = "/" ELSE IF name.dot THEN c = "." ELSE FALSE

\* the loop of scanDirectory() over the entries: the names written
RECURSIVE ScanNames(_)
ScanNames(entries) ==
    IF entries = << >> THEN << >>
    ELSE LET entry == Head(entries)
             name == entry.name
             written == IF ~startsWith(name, ".")
                        THEN IF ~entry.dir /\ entry.ext = "mp3"
                             THEN << IF ~startsWith(name, "/")
                                     THEN [name EXCEPT !.slash = TRUE]
                                     ELSE name >>
                             ELSE << >>
                        ELSE << >>
         IN  written \o ScanNames(Tail(entries))

\* the lines of the index file written by the loop
ScanEntries(entries) ==
    LET names == ScanNames(entries)
    IN  [k \in 1..Len(names) |-> names[k].id]

\* scanDirectory(): the old index is removed and one line is written per
\* *.mp3 file of the root directory.
scanDirectory(s) ==
    LET t == removeIndex(Log(s, "scanDirectory"))
        written == ScanEntries(RootDir(t))
    IN  IF ~t.linked THEN t
        ELSE [t EXCEPT !.hasIndex = TRUE,
                       !.lines = written,
                       !.total = Len(written)]

\* Mutant: the index-th line of the file is returned, blank lines counted.
getSongPath_CountsBlank(s, index) ==
    IF index < 0 \/ index >= s.total THEN NotFound
    ELSE IF ~(s.linked /\ s.hasIndex) THEN NotFound
    ELSE IF index + 1 <= Len(s.lines) THEN s.lines[index + 1] ELSE NotFound

\* getSongPath(index)
getSongPath(s, index) ==
    IF index < 0 \/ index >= s.total THEN NotFound
    ELSE IF ~(s.linked /\ s.hasIndex) THEN NotFound
    ELSE ScanFor(s.lines, 0, index)

\* mountSDCard(): [ok, s].  force: the shuffle button is held down.
mountSDCard(s, force) ==
    IF ~s.inserted THEN [ok |-> FALSE, s |-> s]
    ELSE LET a == [Log(s, "mountSDCard") EXCEPT !.linked = TRUE]
             b == IF force THEN removeIndex(a) ELSE a
             c == loadPlaylistCache(b)
             d == IF c.ok THEN c.s ELSE scanDirectory(c.s)
         IN  [ok |-> TRUE, s |-> [d EXCEPT !.mounted = TRUE]]

\* Mutant: the unmount forgets the count but keeps the position.
unmountSDCard_KeepsPosition(s) ==
    LET a == Log(s, "unmountSDCard")
        b == IF a.run THEN stopSong(a) ELSE a
    IN  [b EXCEPT !.linked = FALSE, !.mounted = FALSE, !.cs = STATE_NO_CARD,
                  !.total = 0]

\* unmountSDCard()
unmountSDCard(s) ==
    LET a == Log(s, "unmountSDCard")
        b == IF a.run THEN stopSong(a) ELSE a
    IN  [b EXCEPT !.linked = FALSE, !.mounted = FALSE, !.cs = STATE_NO_CARD,
                  !.total = 0, !.idx = -1]

\* checkCardPresent(): SD.totalBytes() > 0
checkCardPresent(s) == s.linked

(***************************************************************************)
(* Playback control.                                                       *)
(***************************************************************************)
\* random(lo, hi) on the raw draw r of the generator
random(lo, hi, r) == lo + (r % (hi - lo))

\* Mutant: the running session is not stopped before the new source is opened.
playSongAtIndex_NoStop(s, index, accept) ==
    LET a == Log(s, "playSongAtIndex")
    IN  IF index < 0 \/ index >= a.total THEN a
        ELSE LET path == getSongPath([a EXCEPT !.idx = index], index)
                 b == [a EXCEPT !.idx = index, !.path = path]
             IN  IF path = NotFound THEN Log(b, "pathNotFound")
                 ELSE LET d == connecttoFS(b, path, accept)
                          e == [d EXCEPT !.cs = STATE_PLAYING]
                      IN  IF e.lastVol >= 0 THEN setVolume(e, e.lastVol) ELSE e

\* playSongAtIndex(index)
playSongAtIndex(s, index, accept) ==
    LET a == Log(s, "playSongAtIndex")
    IN  IF index < 0 \/ index >= a.total THEN a
        ELSE LET path == getSongPath([a EXCEPT !.idx = index], index)
                 b == [a EXCEPT !.idx = index, !.path = path]
             IN  IF path = NotFound THEN Log(b, "pathNotFound")
                 ELSE LET c == IF b.run THEN stopSong(b) ELSE b
                          d == connecttoFS(c, path, accept)
                          e == [d EXCEPT !.cs = STATE_PLAYING]
                      IN  IF e.lastVol >= 0 THEN setVolume(e, e.lastVol) ELSE e

\* Mutant: the random pick is played even when it is the current position.
playNextSong_MayRepeat(s, rnd, accept) ==
    LET a == Log(s, "playNextSong")
    IN  IF a.total = 0 THEN a
        ELSE LET nextIndex ==
                     IF a.shuffle THEN random(0, a.total, rnd)
                     ELSE (a.idx + 1) % a.total
             IN  playSongAtIndex(a, nextIndex, accept)

\* Mutant: the sequential successor is not wrapped at the end of the catalog.
playNextSong_NoWrap(s, rnd, accept) ==
    LET a == Log(s, "playNextSong")
    IN  IF a.total = 0 THEN a
        ELSE LET nextIndex ==
                     IF a.shuffle
                     THEN LET r == random(0, a.total, rnd)
                          IN  IF a.total > 1 /\ r = a.idx
                              THEN (r + 1) % a.total
                              ELSE r
                     ELSE a.idx + 1
             IN  playSongAtIndex(a, nextIndex, accept)

\* playNextSong()
playNextSong(s, rnd, accept) ==
    LET a == Log(s, "playNextSong")
    IN  IF a.total = 0 THEN a
        ELSE LET nextIndex ==
                     IF a.shuffle
                     THEN LET r == random(0, a.total, rnd)
                          IN  IF a.total > 1 /\ r = a.idx
                              THEN (r + 1) % a.total
                              ELSE r
                     ELSE (a.idx + 1) % a.total
             IN  playSongAtIndex(a, nextIndex, accept)

\* Mutant: the restart threshold is compared with >= instead of >.
playPreviousSong_AtThreshold(s, elapsed, accept) ==
    LET a == Log(s, "playPreviousSong")
    IN  IF a.total = 0 THEN a
        ELSE LET b == [a EXCEPT !.elapsed = elapsed]
             IN  IF elapsed >= RestartThreshold
                 THEN playSongAtIndex(b, b.idx, accept)
                 ELSE LET p == b.idx - 1
                          prevIndex == IF p < 0 THEN b.total - 1 ELSE p
                      IN  playSongAtIndex(b, prevIndex, accept)

\* Mutant: the empty-catalog guard is missing.
playPreviousSong_NoGuard(s, elapsed, accept) ==
    LET b == [Log(s, "playPreviousSong") EXCEPT !.elapsed = elapsed]
    IN  IF elapsed > RestartThreshold
        THEN playSongAtIndex(b, b.idx, accept)
        ELSE LET p == b.idx - 1
                 prevIndex == IF p < 0 THEN b.total - 1 ELSE p
             IN  playSongAtIndex(b, prevIndex, accept)

\* playPreviousSong(); elapsed is audio.getAudioCurrentTime()
playPreviousSong(s, elapsed, accept) ==
    LET a == Log(s, "playPreviousSong")
    IN  IF a.total = 0 THEN a
        ELSE LET b == [a EXCEPT !.elapsed = elapsed]
             IN  IF elapsed > RestartThreshold
                 THEN playSongAtIndex(b, b.idx, accept)
                 ELSE LET p == b.idx - 1
                          prevIndex == IF p < 0 THEN b.total - 1 ELSE p
                      IN  playSongAtIndex(b, prevIndex, accept)

\* Mutant: the decoder is not resumed when the state goes back to Playing.
togglePause_NoResume(s) ==
    IF s.cs = STATE_PLAYING
    THEN [pauseResume(Log(s, "togglePause")) EXCEPT !.cs = STATE_PAUSED]
    ELSE IF s.cs = STATE_PAUSED
    THEN [Log(Log(s, "togglePause"), "pauseResume") EXCEPT !.cs = STATE_PLAYING]
    ELSE Log(s, "togglePause")

\* togglePause()
togglePause(s) ==
    IF s.cs = STATE_PLAYING
    THEN [pauseResume(Log(s, "togglePause")) EXCEPT !.cs = STATE_PAUSED]
    ELSE IF s.cs = STATE_PAUSED
    THEN [pauseResume(Log(s, "togglePause")) EXCEPT !.cs = STATE_PLAYING]
    ELSE Log(s, "togglePause")

\* powerOff()
powerOff(s, eof) ==
    [stopSong(fadeOut(Log(s, "powerOff"), eof)) EXCEPT !.cs = STATE_OFF]

\* Mutant: no track is requested after the state went back to Idle.
powerOn_NoRequest(s, rnd, accept, force) ==
    LET a == Log(s, "powerOn")
    IN  IF ~a.mounted
        THEN LET m == mountSDCard(a, force)
             IN  IF m.ok
                 THEN [m.s EXCEPT !.cs = STATE_IDLE]
                 ELSE [m.s EXCEPT !.cs = STATE_NO_CARD]
        ELSE [a EXCEPT !.cs = STATE_IDLE]

\* powerOn()
powerOn(s, rnd, accept, force) ==
    LET a == Log(s, "powerOn")
    IN  IF ~a.mounted
        THEN LET m == mountSDCard(a, force)
             IN  IF m.ok
                 THEN playNextSong([m.s EXCEPT !.cs = STATE_IDLE], rnd, accept)
                 ELSE [m.s EXCEPT !.cs = STATE_NO_CARD]
        ELSE playNextSong([a EXCEPT !.cs = STATE_IDLE], rnd, accept)

\* Mutant: switching the mode also forgets the current position.
toggleShuffle_Rewinds(s) ==
    [Log(s, "toggleShuffle") EXCEPT !.shuffle = ~s.shuffle, !.idx = -1]

\* toggleShuffle()
toggleShuffle(s) ==
    [Log(s, "toggleShuffle") EXCEPT !.shuffle = ~s.shuffle]


(***************************************************************************)
(* Button callbacks.                                                       *)
(***************************************************************************)
\* click1()
click1(s, rnd, accept, force) ==
    LET a == Log(s, "click1")
    IN  IF a.cs = STATE_OFF THEN powerOn(a, rnd, accept, force)
        ELSE IF a.cs = STATE_NO_CARD
        THEN LET m == mountSDCard(a, force)
             IN  IF m.ok THEN playNextSong(m.s, rnd, accept) ELSE m.s
        ELSE IF a.cs = STATE_IDLE THEN playNextSong(a, rnd, accept)
        ELSE togglePause(a)

\* click2()
click2(s, rnd, accept, eof) ==
    LET a == Log(s, "click2")
    IN  IF a.cs = STATE_PLAYING \/ a.cs = STATE_PAUSED
        THEN playNextSong(stopSong(fadeOut(a, eof)), rnd, accept)
        ELSE a

\* clickMulti(), n = btnOne.getNumberClicks()
clickMulti(s, n, elapsed, accept, eof, eof2) ==
    LET a == Log(s, "clickMulti")
    IN  IF n = 3 /\ (a.cs = STATE_PLAYING \/ a.cs = STATE_PAUSED)
        THEN LET b == playPreviousSong(fadeOut(a, eof), elapsed, accept)
             IN  IF b.lastVol >= 0 THEN fadeIn(b, b.lastVol, eof2) ELSE b
        ELSE a

\* longPressStart()
longPressStart(s) == toggleShuffle(Log(s, "longPressStart"))

(***************************************************************************)
(* Restart: the globals take their initial values again.                   *)
(***************************************************************************)
PowerOnState(s) ==
    [s EXCEPT !.cs = STATE_NO_CARD, !.total = 0, !.idx = -1, !.shuffle = TRUE,
              !.spn = FALSE, !.mounted = FALSE, !.lastVol = -1, !.run = FALSE,
              !.src = FALSE, !.vol = 0, !.linked = FALSE]

\* ESP.restart() after prefs.putInt("mode", mode)
RestartPlayer(op, mode) ==
    /\ SetPlayer(Log(PowerOnState(Cur), op))
    /\ prefsMode' = mode
    /\ bootMode' = 0
    /\ pc' = "boot"
    /\ lastOp' = op
    /\ stallPasses' = 0
    /\ UNCHANGED nextLog

Restart(op, mode) == RestartPlayer(op, mode) /\ UNCHANGED << btnVars, fadeVars >>

\* A handler op of the SD-mode loop that leaves the state s and goes on to
\* the stage stage.
Count(q, name) == Cardinality({ i \in 1..Len(q) : q[i] = name })

Min(a, b) == IF a < b THEN a ELSE b

Step(op, s, stage, stalled) ==
    /\ Set(s)
    /\ lastOp' = op
    /\ pc' = stage
    /\ stallPasses' = (IF s.run THEN stalled ELSE 0)
    /\ UNCHANGED << prefsMode, bootMode, nextLog >>

Stalled(s) ==
    IF \E i \in 1..Len(s.calls) : s.calls[i] \in {"connecttoFS", "connecttoFS_over_running"}
    THEN 0 ELSE stallPasses

\* readings of audio.getAudioCurrentTime(), in seconds
ElapsedReadings == {0, RestartThreshold, RestartThreshold + 1}

RawDraws == 0..(MaxCatalog - 1)

\* The values of an input that a handler reads only when used holds.
Draws(used) == IF used THEN RawDraws ELSE {0}

Flags(used) == IF used THEN BOOLEAN ELSE {FALSE}

Readings(used) == IF used THEN ElapsedReadings ELSE {0}

InSession == currentState \in {STATE_PLAYING, STATE_PAUSED}

(***************************************************************************)
(* setup()                                                                 *)
(***************************************************************************)
\* the globals of the shuffle button and millis() after a reset
BootGlobals ==
    /\ lastShuffleState' = HIGH
    /\ shufflePressStartTime' = 0
    /\ shuffleLongPressHandled' = FALSE
    /\ millisNow' = 0
    /\ UNCHANGED << pinShuffle, pressEvents, fadeVars >>

\* Mutant: the persisted mode is not consulted, the SD pipeline always boots.
Setup_AlwaysSD ==
    /\ pc = "boot"
    /\ \E rnd \in Draws(cardInserted), accept \in Flags(cardInserted),
          force \in Flags(cardInserted) :
         LET a == setVolume(Log(Cur, "setup"), 0)
             m == mountSDCard(a, force)
             z == IF m.ok
                  THEN playNextSong([m.s EXCEPT !.cs = STATE_IDLE], rnd, accept)
                  ELSE [m.s EXCEPT !.cs = STATE_NO_CARD]
         IN  /\ SetPlayer(z)
             /\ pc' = "tick"
             /\ stallPasses' = 0
    /\ bootMode' = 0
    /\ lastOp' = "setup"
    /\ BootGlobals
    /\ UNCHANGED << prefsMode, nextLog >>

Setup ==
    /\ pc = "boot"
    /\ IF prefsMode = 1
       THEN /\ SetPlayer([Log(Cur, "setup") EXCEPT !.cs = STATE_BLUETOOTH])
            /\ pc' = "bt"
            /\ stallPasses' = 0
       ELSE \E rnd \in Draws(cardInserted), accept \in Flags(cardInserted),
               force \in Flags(cardInserted) :
              LET a == setVolume(Log(Cur, "setup"), 0)
                  m == mountSDCard(a, force)
                  z == IF m.ok
                       THEN playNextSong([m.s EXCEPT !.cs = STATE_IDLE], rnd, accept)
                       ELSE [m.s EXCEPT !.cs = STATE_NO_CARD]
              IN  /\ SetPlayer(z)
                  /\ pc' = "tick"
                  /\ stallPasses' = 0
    /\ bootMode' = prefsMode
    /\ lastOp' = "setup"
    /\ BootGlobals
    /\ UNCHANGED << prefsMode, nextLog >>

(***************************************************************************)
(* loop(), Bluetooth mode: a long press of the shuffle button leaves it.   *)
(***************************************************************************)
BtExit ==
    /\ pc = "bt"
    /\ Restart("exitBluetoothMode", 0)

(***************************************************************************)
(* loop(), SD mode, stage by stage.                                        *)
(***************************************************************************)
\* Mutant: the pending flag is not cleared before playNextSong().
loopDecode_FlagKept(s, eof, rnd, accept) ==
    LET a == Log(s, "loop")
        b == IF a.mounted THEN audioLoop(a, eof) ELSE a
    IN  IF b.spn THEN playNextSong(b, rnd, accept) ELSE b

\* audio.loop() and the pending play-next flag
loopDecode(s, eof, rnd, accept) ==
    LET a == Log(s, "loop")
        b == IF a.mounted THEN audioLoop(a, eof) ELSE a
    IN  IF b.spn
        THEN playNextSong([b EXCEPT !.spn = FALSE], rnd, accept)
        ELSE b

\* What a tick of the decoder can do: decode on ("ok"), reach the end of the
\* track ("eof") or make no progress ("stall").  Once the card is gone the
\* reads of the open file fail, so the session ends or stalls.
DecodeOutcomes ==
    IF cardMounted /\ audioRunning
    THEN (IF sdLinked THEN {"ok", "eof", "stall"} ELSE {"eof", "stall"})
    ELSE {"ok"}

LoopDecode ==
    /\ pc = "tick"
    /\ \E outcome \in DecodeOutcomes :
       \E rnd \in Draws(shouldPlayNext \/ outcome = "eof"),
          accept \in Flags(shouldPlayNext \/ outcome = "eof") :
         LET c == loopDecode(Cur, outcome = "eof", rnd, accept)
             n == IF cardMounted /\ audioRunning /\ outcome = "stall"
                  THEN Min(MaxStall, stallPasses + 1)
                  ELSE 0
         IN  Step("loop", c, "card",
                  IF "playSongAtIndex" \in Range(c.calls) THEN 0 ELSE n)

\* the periodic card check, when its interval has elapsed
\* Mutant: the presence probe is not skipped while playing.
cardCheck_ProbeAlways(s, rnd, accept, force) ==
    LET a == Log(s, "cardCheck")
        probed == a.mounted
        b == IF probed THEN Log(a, "checkCardPresent") ELSE a
    IN  IF probed /\ ~checkCardPresent(b)
        THEN unmountSDCard(b)
        ELSE IF ~b.mounted
        THEN LET m == mountSDCard(b, force)
             IN  IF m.ok
                 THEN playNextSong([m.s EXCEPT !.cs = STATE_IDLE], rnd, accept)
                 ELSE m.s
        ELSE b

cardCheck(s, rnd, accept, force) ==
    LET a == Log(s, "cardCheck")
        probed == a.mounted /\ a.cs # STATE_PLAYING
        b == IF probed THEN Log(a, "checkCardPresent") ELSE a
    IN  IF probed /\ ~checkCardPresent(b)
        THEN unmountSDCard(b)
        ELSE IF ~b.mounted
        THEN LET m == mountSDCard(b, force)
             IN  IF m.ok
                 THEN playNextSong([m.s EXCEPT !.cs = STATE_IDLE], rnd, accept)
                 ELSE m.s
        ELSE b

CardCheck ==
    /\ pc = "card"
    /\ \E rnd \in Draws(~cardMounted /\ cardInserted),
          accept \in Flags(~cardMounted /\ cardInserted),
          force \in Flags(~cardMounted /\ cardInserted) :
         LET z == cardCheck(Cur, rnd, accept, force)
         IN  Step("cardCheck", z, "btnOne", Stalled(z))

\* a gesture of button one resolved by btnOne.tick()
Click1 ==
    /\ pc = "btnOne"
    /\ \E rnd \in Draws(currentState \in {STATE_NO_CARD, STATE_IDLE, STATE_OFF}),
          accept \in Flags(currentState \in {STATE_NO_CARD, STATE_IDLE, STATE_OFF}),
          force \in Flags(currentState \in {STATE_NO_CARD, STATE_OFF} /\ cardInserted) :
         LET z == click1(Cur, rnd, accept, force)
         IN  Step("click1", z, "btnAux", Stalled(z))

Click2 ==
    /\ pc = "btnOne"
    /\ \E rnd \in Draws(InSession), accept \in Flags(InSession),
          eof \in Flags(InSession /\ audioRunning) :
         LET z == click2(Cur, rnd, accept, eof)
         IN  Step("click2", z, "btnAux", Stalled(z))

ClickMulti ==
    /\ pc = "btnOne"
    /\ \E n \in {3, 4} :
       \E elapsed \in Readings(n = 3 /\ InSession),
          accept \in Flags(n = 3 /\ InSession),
          eof \in Flags(n = 3 /\ InSession /\ audioRunning),
          eof2 \in Flags(n = 3 /\ InSession /\ lastVolume >= 0) :
         LET z == clickMulti(Cur, n, elapsed, accept, eof, eof2)
         IN  Step("clickMulti", z, "btnAux", Stalled(z))

LongPressStart ==
    /\ pc = "btnOne"
    /\ Step("longPressStart", longPressStart(Cur), "btnAux", stallPasses)

\* clickBtnTwo(): the WiFi settings are erased and the device restarts
ClickBtnTwo ==
    /\ pc = "btnAux"
    /\ Restart("clickBtnTwo", prefsMode)

\* clickBtnThree(): the persisted mode is toggled and the device restarts
ClickBtnThree ==
    /\ pc = "btnAux"
    /\ Restart("clickBtnThree", IF prefsMode = 0 THEN 1 ELSE 0)

\* the shuffle button held for more than 2 s: enterBluetoothMode()
ShuffleLongPress ==
    /\ pc = "btnAux"
    /\ Restart("enterBluetoothMode", 1)

\* the shuffle button released after a short press: toggleShuffle()
ShuffleShortPress ==
    /\ pc = "btnAux"
    /\ Step("shuffleShortPress", toggleShuffle(Log(Cur, "shuffleShortPress")),
            "volume", stallPasses)

\* the potentiometer sample, when it differs from the last one
VolumeSample ==
    /\ pc = "volume"
    /\ \E newVolume \in 0..MaxVol :
         /\ newVolume # lastVolume
         /\ Step("volume",
                 [setVolume(Log(Cur, "volume"), newVolume) EXCEPT !.lastVol = newVolume],
                 "serial", stallPasses)

\* one line of the serial command channel
Commands == {"next", "prev", "pause", "shuffle", "rescan", "status", "other"}

\* Serial.println()/Serial.printf() of a message in answer to a command
SerialPrint(s) == Log(s, "Serial.print")

serialCommand(s, cmd, rnd, elapsed, accept, eof) ==
    LET a == Log(s, cmd)
    IN  CASE cmd = "next" -> playNextSong(stopSong(fadeOut(a, eof)), rnd, accept)
          [] cmd = "prev" -> playPreviousSong(fadeOut(a, eof), elapsed, accept)
          [] cmd = "pause" -> togglePause(a)
          [] cmd = "shuffle" -> toggleShuffle(a)
          [] cmd = "rescan" -> SerialPrint(removeIndex(a))
          [] cmd = "status" -> SerialPrint(a)
          [] OTHER -> a

SerialCommand ==
    /\ pc = "serial"
    /\ \E cmd \in Commands :
         \E rnd \in Draws(cmd = "next"),
            elapsed \in Readings(cmd = "prev"),
            accept \in Flags(cmd \in {"next", "prev"}),
            eof \in Flags(cmd \in {"next", "prev"} /\ audioRunning) :
         LET z == serialCommand(Cur, cmd, rnd, elapsed, accept, eof)
         IN  Step("serial", z, "tick", Stalled(z))

\* a stage of the pass in which nothing is due
NextStage(stage) ==
    CASE stage = "card" -> "btnOne"
      [] stage = "btnOne" -> "btnAux"
      [] stage = "btnAux" -> "volume"
      [] stage = "volume" -> "serial"
      [] stage = "serial" -> "tick"

Skip ==
    /\ pc \in {"card", "btnOne", "btnAux", "volume", "serial"}
    /\ Step("skip", Cur, NextStage(pc), stallPasses)

(***************************************************************************)
(* The user's hand on the card slot.                                       *)
(***************************************************************************)
\* An index file found on an inserted card: the one a scan wrote when the
\* card held m files (files may have been added or deleted since).
IndexFiles ==
    { [i \in 1..m |-> i] : m \in 0..MaxLines }

RemoveCard ==
    /\ cardInserted
    /\ Set([Cur EXCEPT !.inserted = FALSE, !.linked = FALSE, !.files = 0,
                       !.clutter = "clean", !.hasIndex = FALSE, !.lines = << >>])
    /\ lastOp' = "removeCard"
    /\ UNCHANGED << prefsMode, bootMode, pc, stallPasses, nextLog >>

InsertCard ==
    /\ ~cardInserted
    /\ \E n \in 0..MaxTracks, has \in BOOLEAN, lines \in IndexFiles :
         /\ ~has => lines = << >>
         /\ Set([Cur EXCEPT !.inserted = TRUE, !.files = n,
                            !.hasIndex = has, !.lines = lines])
    /\ lastOp' = "insertCard"
    /\ UNCHANGED << prefsMode, bootMode, pc, stallPasses, nextLog >>

(***************************************************************************)
(* The player.                                                             *)
(***************************************************************************)
Init ==
    /\ currentState = STATE_NO_CARD
    /\ totalSongs = 0
    /\ currentSongIndex = -1
    /\ shuffleMode = TRUE
    /\ shouldPlayNext = FALSE
    /\ cardMounted = FALSE
    /\ lastVolume = -1
    /\ audioRunning = FALSE
    /\ audioSource = FALSE
    /\ audioVolume = 0
    /\ cardInserted = FALSE
    /\ sdLinked = FALSE
    /\ cardFiles = 0
    /\ cardClutter = "clean"
    /\ indexExists = FALSE
    /\ indexLines = << >>
    /\ prefsMode = 0
    /\ bootMode = 0
    /\ pc = "boot"
    /\ calls = << >>
    /\ lastOp = "reset"
    /\ prePos = -1
    /\ elapsedSeen = -1
    /\ lastPath = -1
    /\ stallPasses = 0
    /\ nextLog = << >>
    /\ ButtonIdle
    /\ FadeIdle

Next ==
    \/ Setup
    \/ BtExit
    \/ LoopDecode
    \/ CardCheck
    \/ Click1
    \/ Click2
    \/ ClickMulti
    \/ LongPressStart
    \/ ClickBtnTwo
    \/ ClickBtnThree
    \/ ShuffleLongPress
    \/ ShuffleShortPress
    \/ VolumeSample
    \/ SerialCommand
    \/ Skip
    \/ RemoveCard
    \/ InsertCard

Spec == Init /\ [][Next]_vars

\* loop() is called again and again: a pass always goes on to its next stage,
\* and the 2 s timer of the card check comes due in one pass after another.
\* Nothing is assumed of the user's hand (buttons, commands, card slot).
\* LoopRuns is the step of setup(), of the decode stage or of any later stage
\* taken by the loop itself; CardCheckDue the step of the card check.  Both
\* are told by pc and lastOp alone.
LoopRuns ==
    \/ pc = "boot" /\ pc' \in {"tick", "bt"} /\ lastOp' = "setup"
    \/ pc = "tick" /\ pc' = "card" /\ lastOp' = "loop"
    \/ /\ pc \in {"card", "btnOne", "btnAux", "volume", "serial"}
       /\ pc' = NextStage(pc)
       /\ lastOp' \in {"cardCheck", "skip"}

CardCheckDue == pc = "card" /\ pc' = "btnOne" /\ lastOp' = "cardCheck"

SpecLoop == Spec /\ WF_<<pc, lastOp>>(LoopRuns) /\ SF_<<pc, lastOp>>(CardCheckDue)


(***************************************************************************)
(* Traversal runs: playNextSong() applied again and again to a mounted     *)
(* catalog of n tracks, from every position and in both order modes.       *)
(* nextLog holds the starting position followed by the positions chosen.   *)
(***************************************************************************)
TravInit ==
    \E n \in 1..MaxCatalog, sh \in BOOLEAN :
      \E p \in -1..(n - 1) :
        /\ currentState = (IF p = -1 THEN STATE_IDLE ELSE STATE_PLAYING)
        /\ totalSongs = n
        /\ currentSongIndex = p
        /\ shuffleMode = sh
        /\ shouldPlayNext = FALSE
        /\ cardMounted = TRUE
        /\ lastVolume = -1
        /\ audioRunning = (p >= 0)
        /\ audioSource = (p >= 0)
        /\ audioVolume = 0
        /\ cardInserted = TRUE
        /\ sdLinked = TRUE
        /\ cardFiles = n
        /\ cardClutter = "clean"
        /\ indexExists = TRUE
        /\ indexLines = [i \in 1..n |-> i]
        /\ prefsMode = 0
        /\ bootMode = 0
        /\ pc = "traverse"
        /\ calls = << >>
        /\ lastOp = "reset"
        /\ prePos = p
        /\ elapsedSeen = -1
        /\ lastPath = -1
        /\ stallPasses = 0
        /\ nextLog = << p >>
        /\ ButtonIdle
        /\ FadeIdle

TravNext ==
    /\ pc = "traverse"
    /\ Len(nextLog) <= totalSongs + totalSongs
    /\ \E rnd \in RawDraws, accept \in BOOLEAN :
         LET z == playNextSong(Cur, rnd, accept)
         IN  /\ Set(z)
             /\ nextLog' = Append(nextLog, z.idx)
    /\ lastOp' = "playNextSong"
    /\ UNCHANGED << prefsMode, bootMode, pc, stallPasses >>

SpecTrav == TravInit /\ [][TravNext]_vars

\* the positions returned by the calls of a traversal run
Returned == { nextLog[i] : i \in 2..Len(nextLog) }

FullPass == Len(nextLog) = totalSongs + 1

(***************************************************************************)
(* Power-on runs.  powerOff() has no caller in main.cpp, so STATE_OFF is   *)
(* never entered by the player above; the STATE_OFF branch of click1() and *)
(* powerOn() are run here on the states powerOff() leaves behind: the      *)
(* session stopped and the volume at 0, over a card that was mounted (and  *)
(* may since have been pulled, or lost its index to the command rescan)    *)
(* or over no mounted card at all.                                         *)
(***************************************************************************)
\* the globals as initialised, with no card in the slot
Blank ==
    [ cs |-> STATE_NO_CARD, total |-> 0, idx |-> -1, shuffle |-> TRUE,
      spn |-> FALSE, mounted |-> FALSE, lastVol |-> -1, run |-> FALSE,
      src |-> FALSE, vol |-> 0, inserted |-> FALSE, linked |-> FALSE,
      files |-> 0, clutter |-> "clean", hasIndex |-> FALSE, lines |-> << >>,
      calls |-> << >>, elapsed |-> -1, path |-> -1 ]

OffInit ==
    \E n \in 0..MaxTracks, has \in BOOLEAN, lines \in IndexFiles,
       wasMounted \in BOOLEAN, inserted \in BOOLEAN, rescan \in BOOLEAN,
       sh \in BOOLEAN, vol \in -1..MaxVol :
      \E p \in -1..(MaxLines - 1) :
        LET blank == [Blank EXCEPT !.inserted = TRUE, !.files = n,
                                   !.hasIndex = has, !.lines = lines]
            m == [mountSDCard(blank, FALSE).s EXCEPT !.calls = << >>]
            a == IF wasMounted THEN m ELSE blank
            b == IF rescan THEN removeIndex(a) ELSE a
            c == IF inserted THEN b
                 ELSE [b EXCEPT !.inserted = FALSE, !.linked = FALSE, !.files = 0,
                                !.hasIndex = FALSE, !.lines = << >>]
        IN  /\ ~has => lines = << >>
            /\ rescan => wasMounted /\ inserted
            /\ p < c.total
            /\ p >= 0 \/ c.total = 0 \/ ~wasMounted
            /\ currentState = STATE_OFF
            /\ totalSongs = c.total
            /\ currentSongIndex = p
            /\ shuffleMode = sh
            /\ shouldPlayNext = FALSE
            /\ cardMounted = c.mounted
            /\ lastVolume = vol
            /\ audioRunning = FALSE
            /\ audioSource = FALSE
            /\ audioVolume = 0
            /\ cardInserted = c.inserted
            /\ sdLinked = c.linked
            /\ cardFiles = c.files
            /\ cardClutter = "clean"
            /\ indexExists = c.hasIndex
            /\ indexLines = c.lines
            /\ prefsMode = 0
            /\ bootMode = 0
            /\ pc = "off"
            /\ calls = << >>
            /\ lastOp = "powerOff"
            /\ prePos = p
            /\ elapsedSeen = -1
            /\ lastPath = -1
            /\ stallPasses = 0
            /\ nextLog = << >>
            /\ ButtonIdle
            /\ FadeIdle

\* the click that btnOne.tick() reports in STATE_OFF
OffClick ==
    /\ pc = "off"
    /\ \E rnd \in RawDraws, accept \in BOOLEAN, force \in Flags(~cardMounted /\ cardInserted) :
         Step("click1", click1(Cur, rnd, accept, force), "btnAux", 0)

SpecOff == OffInit /\ [][OffClick]_vars

\* powerOff() returns to loop(); an audio.loop() of its fade-out may have
\* reported the end of the track (audio_eof_mp3: shouldPlayNext = true)
OffReturn ==
    /\ pc = "off"
    /\ \E eof \in BOOLEAN :
         Step("powerOff", [Cur EXCEPT !.spn = eof], "tick", 0)

\* the passes of loop() after powerOff(): the decoder tick and the pending
\* flag, the card check, the click, the commands, and the hand on the card
OffNext ==
    \/ OffReturn
    \/ LoopDecode
    \/ CardCheck
    \/ Click1
    \/ SerialCommand
    \/ Skip
    \/ RemoveCard
    \/ InsertCard

SpecOffLoop == OffInit /\ [][OffNext]_vars

(***************************************************************************)
(* Index runs: loadPlaylistCache(), getSongPath() and scanDirectory()      *)
(* applied, in any order, to a linked card with any short index file       *)
(* (blank lines included) and any root directory.                          *)
(***************************************************************************)
\* the texts of an index file: each line blank (0) or the path of a track
IndexTexts == UNION { [1..m -> 0..MaxTracks] : m \in 0..MaxFileLines }

IdxInit ==
    \E n \in 0..MaxTracks, clutter \in Clutters, has \in BOOLEAN, lines \in IndexTexts :
      /\ ~has => lines = << >>
      /\ currentState = STATE_NO_CARD
      /\ totalSongs = 0
      /\ currentSongIndex = -1
      /\ shuffleMode = TRUE
      /\ shouldPlayNext = FALSE
      /\ cardMounted = FALSE
      /\ lastVolume = -1
      /\ audioRunning = FALSE
      /\ audioSource = FALSE
      /\ audioVolume = 0
      /\ cardInserted = TRUE
      /\ sdLinked = TRUE
      /\ cardFiles = n
      /\ cardClutter = clutter
      /\ indexExists = has
      /\ indexLines = lines
      /\ prefsMode = 0
      /\ bootMode = 0
      /\ pc = "index"
      /\ calls = << >>
      /\ lastOp = "reset"
      /\ prePos = -1
      /\ elapsedSeen = -1
      /\ lastPath = -1
      /\ stallPasses = 0
      /\ nextLog = << >>
      /\ ButtonIdle
      /\ FadeIdle

IdxLoad ==
    /\ pc = "index"
    /\ LET r == loadPlaylistCache(Cur)
       IN  /\ Set(r.s)
           /\ lastOp' = (IF r.ok THEN "loadPlaylistCache_true"
                                 ELSE "loadPlaylistCache_false")
    /\ UNCHANGED << prefsMode, bootMode, pc, stallPasses, nextLog >>

\* getSongPath(index); the index asked for is kept in nextLog
IdxPathAt ==
    /\ pc = "index"
    /\ \E index \in -1..MaxFileLines :
         /\ Set([Log(Cur, "getSongPath") EXCEPT !.path = getSongPath(Cur, index)])
         /\ nextLog' = << index >>
    /\ lastOp' = "getSongPath"
    /\ UNCHANGED << prefsMode, bootMode, pc, stallPasses >>

IdxScan ==
    /\ pc = "index"
    /\ Set(scanDirectory(Cur))
    /\ lastOp' = "scanDirectory"
    /\ UNCHANGED << prefsMode, bootMode, pc, stallPasses, nextLog >>

IdxNext == IdxLoad \/ IdxPathAt \/ IdxScan

SpecIndex == IdxInit /\ [][IdxNext]_vars

(***************************************************************************)
(* Button runs: the shuffle button at the level of its pin.  No card is in *)
(* the slot, so a pass of loop() does nothing but read the button; time    *)
(* passes between the passes, and the hand presses and releases at any     *)
(* moment, the restart and setup() included.                               *)
(***************************************************************************)
playerVars == << currentState, totalSongs, currentSongIndex, shuffleMode,
                shouldPlayNext, cardMounted, lastVolume, audioRunning, audioSource,
                audioVolume, cardInserted, sdLinked, cardFiles, cardClutter,
                indexExists, indexLines, prefsMode, bootMode, pc, calls, lastOp,
                prePos, elapsedSeen, lastPath, stallPasses, nextLog, fadeVars >>

\* the button goes down: a new press
BtnPress ==
    /\ pinShuffle = HIGH
    /\ pinShuffle' = LOW
    /\ pressEvents' = << >>
    /\ UNCHANGED << playerVars, lastShuffleState, shufflePressStartTime,
                    shuffleLongPressHandled, millisNow >>

\* the button comes up
BtnRelease ==
    /\ pinShuffle = LOW
    /\ pinShuffle' = HIGH
    /\ UNCHANGED << playerVars, lastShuffleState, shufflePressStartTime,
                    shuffleLongPressHandled, millisNow, pressEvents >>

\* time between two passes of loop()
PassGaps == { ShortPressMs, LongPressMs \div 2 }

BtnWait ==
    /\ pc \in {"tick", "bt"}
    /\ \E dt \in PassGaps :
         /\ millisNow + dt <= MaxMillis
         /\ millisNow' = millisNow + dt
    /\ UNCHANGED << playerVars, lastShuffleState, shufflePressStartTime,
                    shuffleLongPressHandled, pinShuffle, pressEvents >>

\* the shuffle button block of one pass of loop(), in Bluetooth mode (where
\* there is no short press) and in SD mode
BtnPass ==
    /\ pc \in {"tick", "bt"}
    /\ Len(pressEvents) < MaxPressEvents
    /\ LET currentShuffleState == pinShuffle
           down == lastShuffleState = HIGH /\ currentShuffleState = LOW
           start == IF down THEN millisNow ELSE shufflePressStartTime
           handled == IF down THEN FALSE ELSE shuffleLongPressHandled
           long == /\ currentShuffleState = LOW /\ ~handled
                   /\ millisNow - start > LongPressMs
           short == /\ pc = "tick"
                    /\ lastShuffleState = LOW /\ currentShuffleState = HIGH
                    /\ ~handled /\ millisNow - start > ShortPressMs
       IN  /\ shufflePressStartTime' = start
           /\ IF long
              THEN /\ shuffleLongPressHandled' = TRUE
                   /\ IF pc = "bt" THEN RestartPlayer("exitBluetoothMode", 0)
                                   ELSE RestartPlayer("enterBluetoothMode", 1)
                   /\ pressEvents' = Append(pressEvents, "long")
                   /\ UNCHANGED lastShuffleState
              ELSE /\ shuffleLongPressHandled' = handled
                   /\ SetPlayer(IF short THEN toggleShuffle(Log(Cur, "shuffleButton"))
                                         ELSE Log(Cur, "shuffleButton"))
                   /\ lastOp' = "shuffleButton"
                   /\ pressEvents' = IF short THEN Append(pressEvents, "short")
                                              ELSE pressEvents
                   /\ lastShuffleState' = currentShuffleState
                   /\ UNCHANGED << prefsMode, bootMode, pc, stallPasses, nextLog >>
    /\ UNCHANGED << millisNow, pinShuffle, fadeVars >>

BtnNext == Setup \/ BtnPress \/ BtnRelease \/ BtnWait \/ BtnPass

SpecButton == Init /\ [][BtnNext]_vars

(***************************************************************************)
(* Fade runs: one call of fadeOut() or fadeIn(targetVol), statement by     *)
(* statement, on a player with any gain, with a session running or not,    *)
(* and with millis() far from or close to its wrap.  Every audio.loop()    *)
(* takes some time, possibly less than a millisecond, and may report the   *)
(* end of the track.                                                       *)
(***************************************************************************)
FadeInit ==
    \E vol \in 0..MaxFadeVol, running \in BOOLEAN, now \in {0, MillisWrap - 10} :
      /\ currentState = STATE_PLAYING
      /\ totalSongs = 1
      /\ currentSongIndex = 0
      /\ shuffleMode = TRUE
      /\ shouldPlayNext = FALSE
      /\ cardMounted = TRUE
      /\ lastVolume = vol
      /\ audioRunning = running
      /\ audioSource = running
      /\ audioVolume = vol
      /\ cardInserted = TRUE
      /\ sdLinked = TRUE
      /\ cardFiles = 1
      /\ cardClutter = "clean"
      /\ indexExists = TRUE
      /\ indexLines = << 1 >>
      /\ prefsMode = 0
      /\ bootMode = 0
      /\ pc = "fade"
      /\ calls = << >>
      /\ lastOp = "reset"
      /\ prePos = -1
      /\ elapsedSeen = -1
      /\ lastPath = -1
      /\ stallPasses = 0
      /\ nextLog = << >>
      /\ lastShuffleState = HIGH
      /\ shufflePressStartTime = 0
      /\ shuffleLongPressHandled = FALSE
      /\ millisNow = now
      /\ pinShuffle = HIGH
      /\ pressEvents = << >>
      /\ FadeIdle

\* what a statement of a fade leaves alone
FadeFrame ==
    UNCHANGED << prefsMode, bootMode, pc, stallPasses, nextLog, lastShuffleState,
                 shufflePressStartTime, shuffleLongPressHandled, pinShuffle,
                 pressEvents >>

\* fadeOut() is entered: int startVol = audio.getVolume(); v = startVol
FadeOutCall ==
    /\ pc = "fade" /\ fadePc = "idle"
    /\ SetPlayer(Log(Cur, "fadeOut"))
    /\ lastOp' = "fadeOut"
    /\ fadePc' = "fadeOut_for"
    /\ fadeV' = audioVolume
    /\ UNCHANGED << fadeTarget, fadeStart, fadeGains, fadeTicked, millisNow >>
    /\ FadeFrame

\* fadeIn(targetVol) is entered: v = 0
FadeInCall ==
    /\ pc = "fade" /\ fadePc = "idle"
    /\ \E targetVol \in 0..MaxFadeVol : fadeTarget' = targetVol
    /\ SetPlayer(Log(Cur, "fadeIn"))
    /\ lastOp' = "fadeIn"
    /\ fadePc' = "fadeIn_for"
    /\ fadeV' = 0
    /\ UNCHANGED << fadeStart, fadeGains, fadeTicked, millisNow >>
    /\ FadeFrame

\* Mutant: the loop of fadeOut() stops above 0.
FadeFor_StopsAboveZero ==
    /\ pc = "fade" /\ fadePc \in {"fadeOut_for", "fadeIn_for"}
    /\ LET more == IF fadePc = "fadeOut_for" THEN fadeV > 0 ELSE fadeV <= fadeTarget
       IN  IF more
           THEN /\ SetPlayer(setVolume(Log(Cur, "setVolume"), fadeV))
                /\ fadeStart' = millisNow
                /\ fadeGains' = Append(fadeGains, fadeV)
                /\ fadeTicked' = Append(fadeTicked, FALSE)
                /\ fadePc' = IF fadePc = "fadeOut_for" THEN "fadeOut_while"
                                                       ELSE "fadeIn_while"
           ELSE /\ SetPlayer(Cur)
                /\ fadePc' = "done"
                /\ UNCHANGED << fadeStart, fadeGains, fadeTicked >>
    /\ lastOp' = lastOp
    /\ UNCHANGED << fadeV, fadeTarget, millisNow >>
    /\ FadeFrame

\* the test of the for loop and, when it passes, audio.setVolume(v) and
\* start = millis()
FadeFor ==
    /\ pc = "fade" /\ fadePc \in {"fadeOut_for", "fadeIn_for"}
    /\ LET more == IF fadePc = "fadeOut_for" THEN fadeV >= 0 ELSE fadeV <= fadeTarget
       IN  IF more
           THEN /\ SetPlayer(setVolume(Log(Cur, "setVolume"), fadeV))
                /\ fadeStart' = millisNow
                /\ fadeGains' = Append(fadeGains, fadeV)
                /\ fadeTicked' = Append(fadeTicked, FALSE)
                /\ fadePc' = IF fadePc = "fadeOut_for" THEN "fadeOut_while"
                                                       ELSE "fadeIn_while"
           ELSE /\ SetPlayer(Cur)
                /\ fadePc' = "done"
                /\ UNCHANGED << fadeStart, fadeGains, fadeTicked >>
    /\ lastOp' = lastOp
    /\ UNCHANGED << fadeV, fadeTarget, millisNow >>
    /\ FadeFrame

\* millis() - start, in unsigned arithmetic
HeldFor == (millisNow - fadeStart + MillisWrap) % MillisWrap

HoldMs == IF fadePc = "fadeOut_while" THEN FadeOutHoldMs ELSE FadeInHoldMs

\* the time one audio.loop() takes, in ms
TickTimes == { 0, 5, FadeInHoldMs }

\* while (millis() - start < hold) audio.loop();  -- one round
FadeTick ==
    /\ pc = "fade" /\ fadePc \in {"fadeOut_while", "fadeIn_while"}
    /\ HeldFor < HoldMs
    /\ \E eof \in Flags(audioRunning), dt \in TickTimes :
         /\ SetPlayer(audioLoop(Log(Cur, "audio.loop"), eof))
         /\ millisNow' = (millisNow + dt) % MillisWrap
    /\ fadeTicked' = [fadeTicked EXCEPT ![Len(fadeTicked)] = TRUE]
    /\ lastOp' = lastOp
    /\ UNCHANGED << fadePc, fadeV, fadeTarget, fadeStart, fadeGains >>
    /\ FadeFrame

\* a round of the while loop during which millis() moves on
FadeTickAdvance == FadeTick /\ millisNow' # millisNow

\* the while loop is left: v-- or v++
FadeStepOn ==
    /\ pc = "fade" /\ fadePc \in {"fadeOut_while", "fadeIn_while"}
    /\ ~(HeldFor < HoldMs)
    /\ SetPlayer(Cur)
    /\ fadeV' = IF fadePc = "fadeOut_while" THEN fadeV - 1 ELSE fadeV + 1
    /\ fadePc' = IF fadePc = "fadeOut_while" THEN "fadeOut_for" ELSE "fadeIn_for"
    /\ lastOp' = lastOp
    /\ UNCHANGED << fadeTarget, fadeStart, fadeGains, fadeTicked, millisNow >>
    /\ FadeFrame

FadeNext == FadeOutCall \/ FadeInCall \/ FadeFor \/ FadeTick \/ FadeStepOn

\* the statements of a fade are executed one after the other, and millis()
\* does not stand still for ever
SpecFade ==
    /\ FadeInit /\ [][FadeNext]_vars
    /\ WF_vars(FadeFor) /\ WF_vars(FadeStepOn) /\ WF_vars(FadeTickAdvance)

(***************************************************************************)
(* Claims.                                                                 *)
(***************************************************************************)

\* C1: in Shuffled mode the total positions returned by total successive
\* next() calls are a permutation of [0, total): each exactly once.
C1_ShufflePassIsPermutation ==
    (shuffleMode /\ FullPass) => Returned = 0..(totalSongs - 1)

\* C2: in Sequential mode every next() sets the position to
\* (current + 1) mod total (0 from none = -1), so total calls from p return
\* to p after visiting every position of [0, total) exactly once.
C2_SequentialCycle ==
    ~shuffleMode =>
        /\ \A i \in 2..Len(nextLog) : nextLog[i] = (nextLog[i - 1] + 1) % totalSongs
        /\ FullPass => /\ Returned = 0..(totalSongs - 1)
                       /\ nextLog[1] >= 0 => nextLog[Len(nextLog)] = nextLog[1]

\* a sequential pass of three calls that started on the last position
C2_Witness ==
    /\ ~shuffleMode /\ FullPass /\ totalSongs = 3
    /\ nextLog = << 2, 0, 1, 2 >>

\* C3: previous() with more than 3 s of the track elapsed restarts the
\* same position; with 3 s or less it moves to (p - 1) mod total.
C3_PreviousRestartsOrStepsBack ==
    (lastOp \in {"clickMulti", "serial"} /\ elapsedSeen >= 0) =>
        /\ "playSongAtIndex" \in Range(calls)
        /\ IF elapsedSeen > 3
           THEN currentSongIndex = prePos
           ELSE currentSongIndex = (prePos - 1) % totalSongs

\* previous() at exactly 3 s on position 0 wrapped to the last position
C3_Witness ==
    /\ lastOp = "serial" /\ elapsedSeen = 3
    /\ prePos = 0 /\ totalSongs = 2 /\ currentSongIndex = 1

\* C4: with an empty catalog next() and previous() change nothing and do
\* not invoke play(), whatever the player state and the order mode.
C4_EmptyCatalogNoOp ==
    totalSongs = 0 =>
        /\ \A rnd \in RawDraws, accept \in BOOLEAN :
             playNextSong(Cur, rnd, accept) = Log(Cur, "playNextSong")
        /\ \A elapsed \in ElapsedReadings, accept \in BOOLEAN :
             playPreviousSong(Cur, elapsed, accept) = Log(Cur, "playPreviousSong")
        /\ "playSongAtIndex" \notin Range(calls)

\* the commands next and prev have run on an empty catalog
C4_Witness ==
    /\ totalSongs = 0 /\ lastOp = "serial" /\ cardMounted
    /\ \/ "playNextSong" \in Range(calls)
       \/ "playPreviousSong" \in Range(calls)
    /\ currentSongIndex = -1 /\ currentState = STATE_IDLE /\ ~audioRunning

\* C5: a source is never opened on a decoder whose session is still
\* running: play() stops the running session before it opens the next.
C5_RunningSessionStoppedBeforeOpen ==
    "connecttoFS_over_running" \notin Range(calls)

\* play() found a running session, stopped it and then opened the new source
C5_Witness ==
    /\ lastOp = "serial" /\ "playPreviousSong" \in Range(calls)
    /\ \E i \in 2..(Len(calls) - 1) :
         /\ calls[i - 1] = "playSongAtIndex"
         /\ calls[i] = "stopSong" /\ calls[i + 1] = "connecttoFS"
    /\ audioRunning

\* C6: when play(position) cannot resolve the path the state becomes Idle
\* and the position is not changed.
C6_UnresolvedPathGoesIdle ==
    "pathNotFound" \in Range(calls) =>
        /\ currentState = STATE_IDLE
        /\ currentSongIndex = prePos

\* C7: a session that is running without decode progress for longer than
\* the watchdog window is force-stopped (and a play-next request raised).
C7_StalledSessionIsStopped ==
    stallPasses <= WatchdogWindow

\* C8: a track the decoder rejects at open is skipped: the player is not
\* left in Playing on it with no advance to the next track requested.
C8_RejectedTrackAdvances ==
    (Len(calls) > 0 /\ calls[Len(calls)] = "openFailed") =>
        (currentState # STATE_PLAYING \/ shouldPlayNext)

\* C9: every completion event raises a play-next request of its own, which
\* the control loop answers with exactly one next(): requests pending
\* before a handler, plus the events in it, minus the one answered by the
\* loop, are the requests pending after it.
C9_EveryCompletionOneRequest ==
    [][ pc' # "boot" =>
          LET before == IF shouldPlayNext THEN 1 ELSE 0
              after == IF shouldPlayNext' THEN 1 ELSE 0
              answered == IF lastOp' = "loop" /\ "playNextSong" \in Range(calls')
                          THEN 1 ELSE 0
          IN  before + Count(calls', "audio_eof_mp3") - answered = after ]_vars

\* C9 (amended): a completion event sets the pending flag (an event that
\* finds it set is merged into the pending request); the flag stays set
\* until the loop's check, which clears it and runs next() exactly once;
\* the loop runs next() only for a pending flag.
C9_CompletionFlagAnsweredOnce ==
    [][ pc' # "boot" =>
          LET due == shouldPlayNext \/ "audio_eof_mp3" \in Range(calls')
          IN  IF lastOp' = "loop"
              THEN /\ ~shouldPlayNext'
                   /\ Count(calls', "playNextSong") = (IF due THEN 1 ELSE 0)
              ELSE shouldPlayNext' = due ]_vars

\* the tick reported a completion and the loop answered it with one next()
C9_Witness ==
    /\ lastOp = "loop" /\ ~shouldPlayNext
    /\ "audio_eof_mp3" \in Range(calls)
    /\ Count(calls, "playNextSong") = 1

\* C10: no handler of a pass that starts in Playing probes the card,
\* unmounts it or moves the state to NoMedia.
C10_NoProbeWhilePlaying ==
    [][ (currentState = STATE_PLAYING /\ pc' # "boot") =>
          /\ "checkCardPresent" \notin Range(calls')
          /\ "unmountSDCard" \notin Range(calls')
          /\ currentState' # STATE_NO_CARD
          /\ cardMounted' ]_vars

\* the card check came due in Playing with the card pulled, and did nothing
C10_Witness ==
    /\ lastOp = "cardCheck" /\ currentState = STATE_PLAYING
    /\ ~cardInserted /\ cardMounted
    /\ calls = << "cardCheck" >>

\* the handlers the loop runs by itself, without the user's hand
LoopOps == {"setup", "loop", "cardCheck", "skip"}

\* C11: a card pulled while the player is Playing leads to NoMedia (the
\* stall is detected, the state leaves Playing and the next periodic
\* presence check unmounts), at the latest when the user has left the
\* player alone since.
C11_PulledWhilePlayingReachesNoMedia ==
    (currentState = STATE_PLAYING /\ cardMounted /\ ~sdLinked)
        ~> (currentState = STATE_NO_CARD \/ lastOp \notin LoopOps)

\* C12: when the periodic presence probe fails with the card mounted and
\* the state Idle or Paused, the player moves to NoMedia with the session
\* stopped (decoder stopped, source released), the card unmounted, the
\* total count 0 and the position none (-1).
C12_FailedProbeUnmounts ==
    [][ ( /\ lastOp' = "cardCheck"
          /\ cardMounted /\ ~sdLinked
          /\ currentState \in {STATE_IDLE, STATE_PAUSED} ) =>
          /\ currentState' = STATE_NO_CARD
          /\ ~cardMounted'
          /\ totalSongs' = 0 /\ currentSongIndex' = -1
          /\ ~audioRunning' /\ ~audioSource' ]_vars

\* C13: in the SD pipeline the state is NoMedia exactly when no card is
\* mounted: a successful mount always leaves NoMedia, also with zero tracks.
C13_NoMediaIffNotMounted ==
    pc \notin {"boot", "bt"} =>
        (currentState = STATE_NO_CARD <=> ~cardMounted)

\* C14: the toggle moves Playing to Paused (decoder paused) and Paused to
\* Playing (the open session running again); in every other state it
\* changes nothing; it never moves the position; two toggles in a row from
\* Playing or Paused give back the starting state.
C14_ToggleSwapsPlayingPaused ==
    LET t == togglePause(Cur)
        tt == togglePause(t)
    IN  /\ currentState = STATE_PLAYING =>
              t.cs = STATE_PAUSED /\ ~t.run /\ t.src = audioSource
        /\ currentState = STATE_PAUSED =>
              t.cs = STATE_PLAYING /\ t.run = audioSource /\ t.src = audioSource
        /\ InSession =>
              /\ "pauseResume" \in Range(t.calls)
              /\ [t EXCEPT !.cs = currentState, !.run = audioRunning, !.calls = << >>] = Cur
              /\ [tt EXCEPT !.calls = << >>] = Cur
        /\ ~InSession => t = Log(Cur, "togglePause")
        /\ "togglePause" \in Range(calls) => currentSongIndex = prePos

\* the command pause has paused a running session
C14_Witness ==
    /\ lastOp = "serial"
    /\ calls = << "pause", "togglePause", "pauseResume" >>
    /\ currentState = STATE_PAUSED /\ ~audioRunning /\ audioSource
    /\ togglePause(Cur).cs = STATE_PLAYING /\ togglePause(Cur).run

\* C15: from Playing or Paused the long press of the play button moves the
\* player to PoweredOff, with the volume faded out to 0 and the session
\* stopped.
C15_LongPressPowersOff ==
    [][ (lastOp' = "longPressStart" /\ InSession) =>
          /\ currentState' = STATE_OFF
          /\ audioVolume' = 0
          /\ ~audioRunning' /\ ~audioSource' ]_vars

C17_MountLeavesVerifiedIndex ==
    ("mountSDCard" \in Range(calls) /\ cardMounted /\ sdLinked) =>
        /\ indexExists
        /\ \A i \in 1..Len(indexLines) :
             indexLines[i] # 0 => indexLines[i] <= cardFiles
        /\ totalSongs = CountLines(indexLines)

\* C18: once the index is invalidated, by an unmount or by the command
\* rescan, and until an index is loaded or rebuilt, the total count and the
\* position do not refer to the old index (0 and none) and no play request
\* opens a track resolved from it.
C18_InvalidatedIndexForgotten ==
    (pc \notin {"boot", "bt"} /\ (~cardMounted \/ (sdLinked /\ ~indexExists))) =>
        /\ totalSongs = 0 /\ currentSongIndex = -1
        /\ "connecttoFS" \notin Range(calls)

\* the handlers of the mode-switch gestures
ModeGestures == {"enterBluetoothMode", "exitBluetoothMode", "clickBtnThree"}

\* C19: the persisted mode flag is written only by the mode-switch
\* gestures (long press of the shuffle button: 1 from the SD pipeline, 0
\* from the alternate one; button three: toggled), every write is followed
\* by a restart, and the pipeline that boots is the one of the flag: 1 goes
\* straight to AlternateMode without SD setup, 0 (or unset) to the SD
\* pipeline.
C19_ModeFlagSelectsPipeline ==
    [][ /\ prefsMode' # prefsMode => lastOp' \in ModeGestures
        /\ lastOp' \in ModeGestures =>
              /\ pc' = "boot"
              /\ prefsMode' = (CASE lastOp' = "enterBluetoothMode" -> 1
                                 [] lastOp' = "exitBluetoothMode" -> 0
                                 [] OTHER -> 1 - prefsMode)
        /\ (pc = "boot" /\ pc' # "boot") =>
              /\ lastOp' = "setup" /\ prefsMode' = prefsMode
              /\ IF prefsMode = 1
                 THEN /\ pc' = "bt" /\ currentState' = STATE_BLUETOOTH
                      /\ "mountSDCard" \notin Range(calls') /\ ~cardMounted'
                 ELSE /\ pc' = "tick"
                      /\ currentState' \in {STATE_NO_CARD, STATE_IDLE, STATE_PLAYING}
        /\ pc' # "boot" =>
              /\ bootMode' = prefsMode'
              /\ pc' = "bt" <=> prefsMode' = 1
              /\ currentState' = STATE_BLUETOOTH <=> prefsMode' = 1 ]_vars

\* the device has restarted into AlternateMode on the flag written as 1
C19_Witness ==
    /\ lastOp = "setup" /\ calls = << "setup" >>
    /\ prefsMode = 1 /\ bootMode = 1
    /\ pc = "bt" /\ currentState = STATE_BLUETOOTH /\ ~cardMounted /\ cardInserted

\* C20: an unrecognized command token is answered with a help message and
\* changes no player state: state, position, order mode, total count,
\* session and index file stay as they were.
C20_UnknownCommandHelpsOnly ==
    [][ (lastOp' = "serial" /\ calls'[1] = "other") =>
          /\ "Serial.print" \in Range(calls')
          /\ UNCHANGED << currentState, currentSongIndex, shuffleMode, totalSongs,
                          audioRunning, audioSource, indexExists, indexLines >> ]_vars

\* two outcomes of handlers that differ at most in the calls made
SameEffect(a, b) == [a EXCEPT !.calls = << >>] = [b EXCEPT !.calls = << >>]

\* C21: in every player state the command next has the effect of the
\* double click and the command prev the effect of the triple click, the
\* states in which the gesture is ignored included.
C21_CommandsMirrorGestures ==
    pc \notin {"boot", "bt"} =>
        /\ \A rnd \in RawDraws, accept \in BOOLEAN, eof \in BOOLEAN :
             SameEffect(serialCommand(Cur, "next", rnd, 0, accept, eof),
                        click2(Cur, rnd, accept, eof))
        /\ \A elapsed \in ElapsedReadings, accept \in BOOLEAN, eof \in BOOLEAN :
             SameEffect(serialCommand(Cur, "prev", 0, elapsed, accept, eof),
                        clickMulti(Cur, 3, elapsed, accept, eof, FALSE))

\* the non-empty lines of an index file, in order
NonEmptyLines(lines) == SelectSeq(lines, LAMBDA x : x # 0)

\* C22: loadPlaylistCache() succeeds exactly when the index file exists and
\* has a non-empty line, and then the count is the number of non-empty
\* lines: a blank line more, in front or at the end, changes nothing.
C22_LoadCountsNonEmptyLines ==
    pc = "index" =>
        LET r == loadPlaylistCache(Cur)
            n == Len(NonEmptyLines(indexLines))
            front == loadPlaylistCache([Cur EXCEPT !.lines = << 0 >> \o indexLines])
            back == loadPlaylistCache([Cur EXCEPT !.lines = Append(indexLines, 0)])
        IN  /\ r.ok <=> (indexExists /\ n > 0)
            /\ r.ok => r.s.total = n
            /\ front.ok = r.ok /\ front.s.total = r.s.total
            /\ back.ok = r.ok /\ back.s.total = r.s.total
            /\ lastOp = "loadPlaylistCache_true" => indexExists /\ n > 0 /\ totalSongs = n
            /\ lastOp = "loadPlaylistCache_false" => ~indexExists \/ n = 0

\* an index file of three lines, the middle one blank, was counted as 2
C22_Witness ==
    /\ pc = "index" /\ lastOp = "loadPlaylistCache_true"
    /\ indexLines = << 1, 0, 2 >> /\ totalSongs = 2

\* the indexes getSongPath() is asked for
AskedIndexes == -1 .. MaxFileLines + 1

Playable(entries) ==
    SelectSeq(entries, LAMBDA e : ~e.name.dot /\ ~e.dir /\ e.ext = "mp3")

\* C24: scanDirectory() replaces whatever index there was by one absolute
\* path per non-hidden *.mp3 file of the root directory, in the order
\* listed, and sets totalSongs to the number of lines written; a second
\* run changes nothing; a root without tracks gives an empty index, count 0.
C24_RebuildIndexesPlayableEntries ==
    pc = "index" =>
        LET r == scanDirectory(Cur)
            tracks == Playable(RootDir(Cur))
            again == scanDirectory(r)
        IN  /\ r.hasIndex
            /\ r.lines = [k \in 1..Len(tracks) |-> tracks[k].name.id]
            /\ r.total = Len(r.lines)
            /\ \A k \in 1..Len(ScanNames(RootDir(Cur))) : ScanNames(RootDir(Cur))[k].slash
            /\ again.hasIndex /\ again.lines = r.lines /\ again.total = r.total
            /\ tracks = << >> => r.lines = << >> /\ r.total = 0
            /\ lastOp = "scanDirectory" =>
                  /\ indexExists
                  /\ indexLines = [k \in 1..Len(tracks) |-> tracks[k].name.id]
                  /\ totalSongs = Len(indexLines)

\* the same with a listing of bare names, where it holds
C24_BareNames ==
    (pc = "index" /\ cardClutter # "paths") => C24_RebuildIndexesPlayableEntries

\* the positions returned by the second run of totalSongs calls
SecondPass == Len(nextLog) = totalSongs + totalSongs + 1

ReturnedAgain == { nextLog[i] : i \in (totalSongs + 2)..Len(nextLog) }

\* C25: in shuffle mode the totalSongs calls of playNextSong() that follow
\* a full pass of totalSongs calls visit every position of [0, totalSongs)
\* exactly once again.
C25_SecondShufflePassIsPermutation ==
    (shuffleMode /\ SecondPass) => ReturnedAgain = 0..(totalSongs - 1)

\* C26: a handler that calls toggleShuffle() inverts shuffleMode and leaves
\* the position, the player state, the count, the decoder's session and
\* gain, the pending request and the index file as they were.
C26_ToggleShuffleChangesOnlyMode ==
    [][ "toggleShuffle" \in Range(calls') =>
          /\ shuffleMode' = ~shuffleMode
          /\ UNCHANGED << currentState, currentSongIndex, totalSongs, audioRunning,
                          audioSource, audioVolume, lastVolume, shouldPlayNext,
                          cardMounted, sdLinked, indexExists, indexLines >> ]_vars

\* the mode was switched to sequential in the middle of a playing track
C26_Witness ==
    /\ "toggleShuffle" \in Range(calls) /\ ~shuffleMode
    /\ currentState = STATE_PLAYING /\ currentSongIndex = 1 /\ audioRunning

\* C28: one press of the shuffle button triggers the long-press action
\* (the mode switch) at most once, however long it is held, and a press
\* that triggered it triggers no short-press action when it is released.
C28_LongPressOncePerPress ==
    /\ Count(pressEvents, "long") <= 1
    /\ "long" \in Range(pressEvents) => "short" \notin Range(pressEvents)

\* in the calls q of a handler, fadeOut() comes before the session is
\* stopped, paused or replaced
FadedFirst(q) ==
    \E j \in 1..Len(q) :
       /\ q[j] = "fadeOut"
       /\ \A i \in 1..Len(q) :
             q[i] \in {"stopSong", "pauseResume", "connecttoFS",
                       "connecttoFS_over_running"} => j < i

\* a track change asked for by a gesture or a command
SkipStep ==
    /\ lastOp' \in {"click2", "clickMulti", "serial"}
    /\ Range(calls') \cap {"playNextSong", "playPreviousSong"} # {}

\* a playing session is paused
PauseStep == currentState = STATE_PLAYING /\ currentState' = STATE_PAUSED

\* C29: every track change by gesture or command, every pause and every
\* power-off is preceded, in the same handler, by fadeOut(), which has
\* finished before the session is stopped or paused.
C29_FadeOutBeforeChange ==
    [][ (SkipStep \/ PauseStep \/ "powerOff" \in Range(calls')) =>
            FadedFirst(calls') ]_vars

\* the same for the track changes alone, where it holds
C29_FadeOutBeforeSkip ==
    [][ SkipStep => FadedFirst(calls') ]_vars

\* the handler of the step opened a track: audio.connecttoFS() was called
StartsSession ==
    Range(calls') \cap {"connecttoFS", "connecttoFS_over_running"} # {}

\* the handler of the step asked for another track
TrackChange == Range(calls') \cap {"playNextSong", "playPreviousSong"} # {}

\* C30: a handler that opens a track leaves the decoder's gain at
\* lastVolume, once a volume has been sampled, whether or not it faded out
\* first; and no track change ends in STATE_PLAYING with gain 0 while
\* lastVolume is above 0.
C30_GainRestoredOnPlay ==
    [][ /\ (StartsSession /\ lastVolume' >= 0) => audioVolume' = lastVolume'
        /\ (TrackChange /\ currentState' = STATE_PLAYING /\ lastVolume' > 0) =>
               audioVolume' # 0 ]_vars

\* the first half alone, where it holds
C30_GainEqualsTargetAfterPlay ==
    [][ (StartsSession /\ lastVolume' >= 0) => audioVolume' = lastVolume' ]_vars

\* the gains of a ramp: each one step from the one before
Ramp(gains, step) == \A i \in 2..Len(gains) : gains[i] = gains[i - 1] + step

\* C31: fadeOut() and fadeIn(targetVol) come to their end; fadeOut() sets
\* the gain to its present value and then one lower at a time down to 0,
\* fadeIn() sets it to 0 and then one higher at a time up to targetVol;
\* and audio.loop() runs during every step of either.
C31_FadesRampAndTerminate ==
    /\ [](pc = "fade" =>
            /\ fadeGains # << >> => audioVolume = fadeGains[Len(fadeGains)]
            /\ lastOp = "fadeOut" => Ramp(fadeGains, -1)
            /\ lastOp = "fadeIn" => Ramp(fadeGains, 1) /\ (fadeGains # << >> => fadeGains[1] = 0)
            /\ fadePc \notin {"fadeOut_while", "fadeIn_while"} =>
                  \A i \in 1..Len(fadeTicked) : fadeTicked[i]
            /\ (fadePc = "done" /\ lastOp = "fadeOut") => audioVolume = 0
            /\ (fadePc = "done" /\ lastOp = "fadeIn") => audioVolume = fadeTarget)
    /\ [][ (pc = "fade" /\ fadePc = "fadeOut_for" /\ fadeGains = << >>) =>
             fadeGains' = << audioVolume >> ]_vars
    /\ ((pc = "fade" /\ fadePc # "idle") ~> fadePc = "done")

\* a fade-out from gain 3 that has come to its end, across the wrap of millis()
C31_Witness ==
    /\ pc = "fade" /\ fadePc = "done" /\ lastOp = "fadeOut"
    /\ fadeGains = << 3, 2, 1, 0 >> /\ audioVolume = 0
    /\ fadeTicked = << TRUE, TRUE, TRUE, TRUE >>
    /\ millisNow < fadeStart

\* in the calls q of a handler the track ended once, and that was before
\* the handler asked for another track (during its fade-out)
EofBeforePlay(q) ==
    /\ Count(q, "audio_eof_mp3") = 1
    /\ \E i, j \in 1..Len(q) :
          /\ i < j
          /\ q[i] = "audio_eof_mp3"
          /\ q[j] \in {"playNextSong", "playPreviousSong"}

\* C32: a next or previous request during whose fade-out the track ends
\* does not leave the play-next flag pending, so the following pass of
\* loop() does not change the track a second time.
C32_OneChangePerRequest ==
    [][ ( /\ ~shouldPlayNext
          /\ lastOp' \in {"click2", "clickMulti", "serial"}
          /\ EofBeforePlay(calls') ) => ~shouldPlayNext' ]_vars

C34_PlayingHasSessionOrRequest ==
    currentState = STATE_PLAYING => (audioRunning \/ shouldPlayNext)

\* C35: currentSongIndex is -1 or a position of the catalog,
\* 0 <= currentSongIndex < totalSongs; and unmountSDCard() leaves
\* STATE_NO_CARD with totalSongs 0 and currentSongIndex -1.
C35_PositionInCatalog ==
    /\ currentSongIndex = -1 \/ (0 <= currentSongIndex /\ currentSongIndex < totalSongs)
    /\ "unmountSDCard" \in Range(calls) =>
          /\ currentState = STATE_NO_CARD
          /\ totalSongs = 0 /\ currentSongIndex = -1

\* the card check unmounted a card whose second track was the current one
C35_Witness ==
    /\ lastOp = "cardCheck" /\ "unmountSDCard" \in Range(calls)
    /\ prePos = 1 /\ currentSongIndex = -1 /\ totalSongs = 0
    /\ currentState = STATE_NO_CARD

\* C36: in shuffle mode every playNextSong() on a catalog of totalSongs > 0
\* chooses a position of [0, totalSongs): position 0 when there is one
\* track, and otherwise never the position that was current at the call.
C36_ShufflePickInRangeNoRepeat ==
    (pc = "traverse" /\ shuffleMode) =>
        \A i \in 2..Len(nextLog) :
            /\ nextLog[i] \in 0..(totalSongs - 1)
            /\ totalSongs = 1 => nextLog[i] = 0
            /\ totalSongs > 1 => nextLog[i] # nextLog[i - 1]

\* shuffled calls on three tracks: none repeats the position before it
C36_Witness ==
    /\ pc = "traverse" /\ shuffleMode /\ totalSongs = 3
    /\ nextLog = << 2, 0, 1, 0, 2 >>

====
